---------------------------- MODULE Spec2Model ----------------------------
(***************************************************************************)
(* A model of the ELIN compiler (src/compiler): the symbol table, the      *)
(* shunting-yard expression lowering, the statement handlers, the block    *)
(* collection and the placeholder-then-patch jump emission, and the driver *)
(* Compiler.compile.                                                       *)
(*                                                                         *)
(* A source line is the sequence of its whitespace-separated tokens (what  *)
(* line.strip().split() gives); a blank line is the empty sequence.  An    *)
(* instruction "op arg" of the bytecode list is the record                 *)
(* [op |-> op, arg |-> arg], with arg = 0 for an instruction that has no   *)
(* operand.  Addresses and list indices are 0-based as in the source: the  *)
(* element at Python index a is the (a+1)-th element of the sequence.      *)
(***************************************************************************)
EXTENDS Integers, Sequences, FiniteSets

(***************************************************************************)
(* ops.py                                                                  *)
(***************************************************************************)
PUSH == 1
LOAD == 2
STORE == 3
ADD == 4
SUB == 5
MUL == 6
DIV == 7
PRINT == 8
HALT == 9
CMP_EQ == 10
CMP_NEQ == 11
CMP_LT == 12
CMP_LTE == 13
CMP_GT == 14
CMP_GTE == 15
JMP == 16
JZ == 17
JNZ == 18

OP_MAP(tok) ==
    CASE tok = "+" -> ADD
      [] tok = "-" -> SUB
      [] tok = "*" -> MUL
      [] tok = "/" -> DIV

ArithOperators == {"+", "-", "*", "/"}

CMP_OP_MAP(tok) ==
    CASE tok = "==" -> CMP_EQ
      [] tok = "!=" -> CMP_NEQ
      [] tok = "<"  -> CMP_LT
      [] tok = "<=" -> CMP_LTE
      [] tok = ">"  -> CMP_GT
      [] tok = ">=" -> CMP_GTE

CMP_OPERATORS == {"==", "!=", "<", "<=", ">", ">="}

(***************************************************************************)
(* Strings.  TLC has no characters, so the string tests of the source are  *)
(* tables over the tokens the model's inputs are written with.             *)
(***************************************************************************)
\* str.isdigit(), or '-' followed by digits: the numeric literals, with the
\* integer each one denotes.
NumberValue(tok) ==
    CASE tok = "0" -> 0
      [] tok = "1" -> 1
      [] tok = "2" -> 2
      [] tok = "3" -> 3
      [] tok = "4" -> 4
      [] tok = "5" -> 5
      [] tok = "10" -> 10
      [] tok = "-1" -> 0 - 1

NumberTokens == {"0", "1", "2", "3", "4", "5", "10", "-1"}

IsNumber(tok) == tok \in NumberTokens

\* f"__literal_{var_name}" for the numeric literals
LiteralName(tok) ==
    CASE tok = "0" -> "__literal_0"
      [] tok = "1" -> "__literal_1"
      [] tok = "2" -> "__literal_2"
      [] tok = "3" -> "__literal_3"
      [] tok = "4" -> "__literal_4"
      [] tok = "5" -> "__literal_5"
      [] tok = "10" -> "__literal_10"
      [] tok = "-1" -> "__literal_-1"

\* tok.startswith(tag), for the tags the source tests and the tokens that
\* start with one of them
TokenStartsWith(tok, tag) ==
    \/ tok = tag
    \/ <<tok, tag>> \in {<<"endif", "end">>, <<"//note", "//">>, <<"#note", "#">>}

\* line.startswith(tag) on a stripped line: a tag holds no space, so it is a
\* prefix of the line exactly when it is a prefix of the first token.
StartsWith(line, tag) == Len(line) > 0 /\ TokenStartsWith(line[1], tag)

\* not line or line.startswith("//") or line.startswith("#")
IsBlankOrComment(line) ==
    \/ line = <<>>
    \/ StartsWith(line, "//")
    \/ StartsWith(line, "#")

\* Python's seq[a:b] for 0 <= a, b (0-based, b exclusive, clipped to the length)
Slice(s, a, b) ==
    LET hi == IF b > Len(s) THEN Len(s) ELSE b
    IN  IF a >= hi THEN <<>> ELSE SubSeq(s, a + 1, hi)

\* Python's seq[a:]
SliceFrom(s, a) == Slice(s, a, Len(s))

\* Python's seq[1:-1]
Inner(s) == Slice(s, 1, Len(s) - 1)

\* the instruction at address a
At(prog, a) == prog[a + 1]

Instr(op, arg) == [op |-> op, arg |-> arg]

\* the transient entries "PLACEHOLDER_JZ" and "PLACEHOLDER_JMP" of the list:
\* no opcode, written as the negated opcode of the jump that replaces them
PLACEHOLDER_JZ == Instr(0 - JZ, 0)

PLACEHOLDER_JMP == Instr(0 - JMP, 0)

(***************************************************************************)
(* expression_parser.py                                                    *)
(***************************************************************************)
\* get_priority with one priority for the four operators
get_priority_flat(op) == IF op \in {"+", "-", "*", "/"} THEN 1 ELSE 0

get_priority(op) ==
    IF op \in {"+", "-"} THEN 1
    ELSE IF op \in {"*", "/"} THEN 2
    ELSE 0

\* the inner loop of an operator token: pops to the output while the top of
\* the stack is an operator of priority >= the token's
RECURSIVE PopHigher(_, _, _)
PopHigher(output, operator_stack, token) ==
    IF operator_stack = <<>> THEN [output |-> output, stack |-> operator_stack]
    ELSE LET top == operator_stack[Len(operator_stack)]
         IN  IF top \notin ArithOperators
             THEN [output |-> output, stack |-> operator_stack]
             ELSE IF get_priority(top) >= get_priority(token)
             THEN PopHigher(Append(output, top),
                            SubSeq(operator_stack, 1, Len(operator_stack) - 1),
                            token)
             ELSE [output |-> output, stack |-> operator_stack]

\* the loop of a ')' token: pops to the output down to a '('
RECURSIVE PopToParen(_, _)
PopToParen(output, operator_stack) ==
    IF operator_stack /= <<>> /\ operator_stack[Len(operator_stack)] /= "("
    THEN PopToParen(Append(output, operator_stack[Len(operator_stack)]),
                    SubSeq(operator_stack, 1, Len(operator_stack) - 1))
    ELSE [output |-> output, stack |-> operator_stack]

\* the final loop: pops everything left to the output
RECURSIVE Drain(_, _)
Drain(output, operator_stack) ==
    IF operator_stack = <<>> THEN output
    ELSE Drain(Append(output, operator_stack[Len(operator_stack)]),
               SubSeq(operator_stack, 1, Len(operator_stack) - 1))

\* the for loop over the tokens, from token k on
RECURSIVE ShuntingYard(_, _, _, _)
ShuntingYard(expression, k, output, operator_stack) ==
    IF k > Len(expression) THEN Drain(output, operator_stack)
    ELSE LET token == expression[k]
         IN  IF token = "("
             THEN ShuntingYard(expression, k + 1, output, Append(operator_stack, token))
             ELSE IF token = ")"
             THEN LET p == PopToParen(output, operator_stack)
                  IN  ShuntingYard(expression, k + 1, p.output,
                                   IF p.stack /= <<>>
                                   THEN SubSeq(p.stack, 1, Len(p.stack) - 1)
                                   ELSE p.stack)
             ELSE IF token \in ArithOperators
             THEN LET p == PopHigher(output, operator_stack, token)
                  IN  ShuntingYard(expression, k + 1, p.output, Append(p.stack, token))
             ELSE ShuntingYard(expression, k + 1, Append(output, token), operator_stack)

infix_to_postfix(expression) == ShuntingYard(expression, 1, <<>>, <<>>)

(***************************************************************************)
(* compiler.py: the compiler's fields.  A value st of the operators below  *)
(* is the object's state: bytecode, variables (name -> index, defined,     *)
(* used), next_var_index, and err, the message of the sys.exit(1) that     *)
(* ended the run ("none" while it has not exited).  After an exit nothing  *)
(* more runs: every operator leaves an exited state as it is.              *)
(***************************************************************************)
NoError == "none"

EmptyVariables == [n \in {} |-> [index |-> 0, defined |-> TRUE, used |-> FALSE]]

NewCompiler ==
    [bytecode |-> <<>>, variables |-> EmptyVariables, next_var_index |-> 0,
     err |-> NoError]

Exit(st, message) == [st EXCEPT !.err = message]

Emit(st, instr) == [st EXCEPT !.bytecode = Append(@, instr)]

add_push(st, value) == Emit(st, Instr(PUSH, NumberValue(value)))

add_load(st, index) == Emit(st, Instr(LOAD, index))

add_store(st, index) == Emit(st, Instr(STORE, index))

add_op(st, op_code) == Emit(st, Instr(op_code, 0))

\* the value define_variable and use_variable return
IndexOf(st, name) == st.variables[name].index

\* define_variable without the test for a name already defined
define_variable_fresh(st, name) ==
    [st EXCEPT
       !.variables = [n \in DOMAIN st.variables \cup {name} |->
                        IF n = name
                        THEN [index |-> st.next_var_index, defined |-> TRUE,
                              used |-> FALSE]
                        ELSE st.variables[n]],
       !.next_var_index = @ + 1]

define_variable(st, name) ==
    IF name \notin DOMAIN st.variables
    THEN [st EXCEPT
            !.variables = [n \in DOMAIN st.variables \cup {name} |->
                             IF n = name
                             THEN [index |-> st.next_var_index, defined |-> TRUE,
                                   used |-> FALSE]
                             ELSE st.variables[n]],
            !.next_var_index = @ + 1]
    ELSE st

use_variable(st, name) ==
    IF name \notin DOMAIN st.variables
    THEN Exit(st, "UndefinedVariable")
    ELSE [st EXCEPT !.variables[name].used = TRUE]

parse_operand(st, operand) ==
    IF st.err /= NoError THEN st
    ELSE IF IsNumber(operand) THEN add_push(st, operand)
    ELSE LET u == use_variable(st, operand)
         IN  IF u.err /= NoError THEN u ELSE add_load(u, IndexOf(u, operand))

\* the loop "for token in postfix" of _compile_expression, from token k on
RECURSIVE EmitPostfix(_, _, _)
EmitPostfix(st, postfix, k) ==
    IF st.err /= NoError \/ k > Len(postfix) THEN st
    ELSE EmitPostfix(IF postfix[k] \in ArithOperators
                     THEN add_op(st, OP_MAP(postfix[k]))
                     ELSE parse_operand(st, postfix[k]),
                     postfix, k + 1)

compile_expression(st, expr_tokens) ==
    IF st.err /= NoError THEN st
    ELSE IF Len(expr_tokens) = 1 THEN parse_operand(st, expr_tokens[1])
    ELSE EmitPostfix(st, infix_to_postfix(expr_tokens), 1)

\* the loop that finds the first comparison operator: its 0-based position,
\* or -1
FirstCmp(tokens) ==
    IF \E i \in 1..Len(tokens) : tokens[i] \in CMP_OPERATORS
    THEN (CHOOSE i \in 1..Len(tokens) :
            /\ tokens[i] \in CMP_OPERATORS
            /\ \A j \in 1..(i - 1) : tokens[j] \notin CMP_OPERATORS) - 1
    ELSE 0 - 1

\* lhs, rhs, then the comparison instruction (handle_assignment 69-75,
\* handle_comparison 103-105)
\* the two sides of a comparison lowered without the comparison instruction
CompileComparison_no_op(st, tokens, pos) ==
    compile_expression(compile_expression(st, Slice(tokens, 0, pos)),
                       SliceFrom(tokens, pos + 1))

CompileComparison(st, tokens, pos) ==
    LET l == compile_expression(st, Slice(tokens, 0, pos))
        r == compile_expression(l, SliceFrom(tokens, pos + 1))
    IN  IF r.err /= NoError THEN r ELSE add_op(r, CMP_OP_MAP(tokens[pos + 1]))

\* handle_assignment that defines the target after lowering the expression
handle_assignment_late_define(st, segments) ==
    IF st.err /= NoError \/ Len(segments) < 4 THEN st
    ELSE LET target_var == segments[2]
             expression == SliceFrom(segments, 3)
             pos_of_cmp == FirstCmp(expression)
             e == IF pos_of_cmp /= 0 - 1
                  THEN CompileComparison(st, expression, pos_of_cmp)
                  ELSE compile_expression(st, expression)
             d == define_variable(e, target_var)
         IN  IF e.err /= NoError THEN e ELSE add_store(d, IndexOf(d, target_var))

handle_assignment(st, segments) ==
    IF st.err /= NoError \/ Len(segments) < 4 THEN st
    ELSE LET target_var == segments[2]
             d == define_variable(st, target_var)
             target_index == IndexOf(d, target_var)
             expression == SliceFrom(segments, 3)
             pos_of_cmp == FirstCmp(expression)
             e == IF pos_of_cmp /= 0 - 1
                  THEN CompileComparison(d, expression, pos_of_cmp)
                  ELSE compile_expression(d, expression)
         IN  IF e.err /= NoError THEN e ELSE add_store(e, target_index)

handle_comparison(st, segments) ==
    IF st.err /= NoError THEN st
    ELSE LET pos == FirstCmp(segments)
         IN  IF pos = 0 - 1 THEN Exit(st, "NoComparison")
             ELSE CompileComparison(st, segments, pos)

handle_print(st, segments) ==
    IF st.err /= NoError \/ Len(segments) < 2 THEN st
    ELSE LET var_name == segments[2]
         IN  IF IsNumber(var_name)
             THEN LET temp_var == LiteralName(var_name)
                      d == define_variable(st, temp_var)
                      index == IndexOf(d, temp_var)
                      s == add_store(add_push(d, var_name), index)
                      u == [s EXCEPT !.variables[temp_var].used = TRUE]
                  IN  Emit(u, Instr(PRINT, index))
             ELSE LET u == use_variable(st, var_name)
                  IN  IF u.err /= NoError THEN u
                      ELSE Emit(u, Instr(PRINT, IndexOf(u, var_name)))

\* compile_line on a line compile_raw hands it (never blank, never a comment)
compile_line(st, line) ==
    IF st.err /= NoError THEN st
    ELSE IF line \in {<<"end">>, <<"else">>, <<"wend">>} THEN st
    ELSE LET cmd == line[1]
         IN  IF cmd = "let" THEN handle_assignment(st, line)
             ELSE IF cmd = "print" THEN handle_print(st, line)
             ELSE IF cmd = "halt" THEN add_op(st, HALT)
             ELSE Exit(st, "UnknownCommand")

\* the while loop of _collect_block: [block, i]
RECURSIVE CollectLoop(_, _, _, _, _, _)
CollectLoop(lines, block, i, depth, open_tag, close_tag) ==
    IF i < Len(lines) /\ depth > 0
    THEN LET curr == lines[i + 1]
         IN  CollectLoop(lines, Append(block, curr), i + 1,
                         IF StartsWith(curr, open_tag) THEN depth + 1
                         ELSE IF StartsWith(curr, close_tag) THEN depth - 1
                         ELSE depth,
                         open_tag, close_tag)
    ELSE [block |-> block, i |-> i]

\* _collect_block that ends at the first closing line
collect_block_first_close(lines, start_idx, open_tag, close_tag) ==
    LET closing == {k \in (start_idx + 2)..Len(lines) : StartsWith(lines[k], close_tag)}
        last == IF closing = {} THEN Len(lines)
                ELSE CHOOSE k \in closing : \A j \in closing : k <= j
    IN  [block |-> SubSeq(lines, start_idx + 1, last), i |-> last]

collect_block(lines, start_idx, open_tag, close_tag) ==
    CollectLoop(lines, <<lines[start_idx + 1]>>, start_idx + 1, 1, open_tag, close_tag)

\* the scan of handle_if for the else and the end of the block, from line i
\* on: [else_pos, end_pos]
RECURSIVE IfScan(_, _, _, _)
IfScan(lines, i, depth, else_pos) ==
    IF i >= Len(lines) THEN [else_pos |-> else_pos, end_pos |-> 0 - 1]
    ELSE LET line == lines[i + 1]
         IN  IF StartsWith(line, "if") THEN IfScan(lines, i + 1, depth + 1, else_pos)
             ELSE IF StartsWith(line, "end")
             THEN IF depth = 0 THEN [else_pos |-> else_pos, end_pos |-> i]
                  ELSE IfScan(lines, i + 1, depth - 1, else_pos)
             ELSE IF line = <<"else">> /\ depth = 0 THEN IfScan(lines, i + 1, depth, i)
             ELSE IfScan(lines, i + 1, depth, else_pos)

\* the "special check for else sibling" of compile_raw
HasElse(block) == \E k \in 1..Len(block) : block[k] = <<"else">>

\* bytecode[pos] = f"{op} {target}"
Patch(st, pos, op, target) == [st EXCEPT !.bytecode[pos + 1] = Instr(op, target)]

\* the trailing halt appended whatever the last instruction is
AddTrailingHalt_always(st) == add_op(st, HALT)

\* compile: the trailing halt
AddTrailingHalt(st) ==
    IF st.bytecode = <<>> \/ st.bytecode[Len(st.bytecode)] /= Instr(HALT, 0)
    THEN add_op(st, HALT)
    ELSE st

\* check_unused_variables that reports nothing
check_unused_variables_skipped(st) == st

check_unused_variables(st) ==
    IF \E name \in DOMAIN st.variables : ~st.variables[name].used
    THEN Exit(st, "UnusedVariables")
    ELSE st

\* handle_while up to the call of compile_raw on the body: the state, with
\* the locals start_addr and jz_pos
handle_while_enter(st, while_condition) ==
    LET start_addr == Len(st.bytecode)
        c == handle_comparison(st, while_condition)
        jz_pos == Len(c.bytecode)
    IN  [st |-> IF c.err /= NoError THEN c ELSE Emit(c, PLACEHOLDER_JZ),
         start_addr |-> start_addr, jz_pos |-> jz_pos]

\* handle_while_exit jumping back to the first instruction of the body
handle_while_exit_to_body(st, start_addr, jz_pos) ==
    LET j == Emit(st, Instr(JMP, jz_pos + 1))
        end_addr == Len(j.bytecode)
    IN  Patch(j, jz_pos, JZ, end_addr)

\* handle_while after the body: the jump back and the patch of the JZ
handle_while_exit(st, start_addr, jz_pos) ==
    LET j == Emit(st, Instr(JMP, start_addr))
        end_addr == Len(j.bytecode)
    IN  Patch(j, jz_pos, JZ, end_addr)

\* handle_if up to the call of compile_raw on the then-branch: the state, the
\* branch taken (with_else), the bodies and the local jz_pos
handle_if_enter(st, lines, has_else) ==
    LET scan == IfScan(lines, 1, 0, 0 - 1)
        else_pos == scan.else_pos
        end_pos == scan.end_pos
        c == handle_comparison(st, SliceFrom(lines[1], 1))
        with_else == has_else /\ else_pos /= 0 - 1
    IN  [st |-> IF end_pos = 0 - 1 THEN Exit(st, "MissingEnd")
                ELSE IF c.err /= NoError THEN c
                ELSE Emit(c, PLACEHOLDER_JZ),
         with_else |-> with_else,
         if_body |-> IF with_else THEN Slice(lines, 1, else_pos)
                     ELSE Slice(lines, 1, end_pos),
         else_body |-> IF with_else THEN Slice(lines, else_pos + 1, end_pos) ELSE <<>>,
         jz_pos |-> Len(c.bytecode)]

\* handle_if between the two branches: the placeholder of the jump over the
\* else branch, with the locals jmp_pos and else_label
handle_if_else(st) ==
    LET jmp_pos == Len(st.bytecode)
        j == Emit(st, PLACEHOLDER_JMP)
    IN  [st |-> j, jmp_pos |-> jmp_pos, else_label |-> Len(j.bytecode)]

\* handle_if_else_exit with the two targets exchanged
handle_if_else_exit_swapped(st, jz_pos, jmp_pos, else_label) ==
    LET end_label == Len(st.bytecode)
    IN  Patch(Patch(st, jz_pos, JZ, end_label), jmp_pos, JMP, else_label)

\* handle_if after the else branch: both patches
handle_if_else_exit(st, jz_pos, jmp_pos, else_label) ==
    LET end_label == Len(st.bytecode)
    IN  Patch(Patch(st, jz_pos, JZ, else_label), jmp_pos, JMP, end_label)

\* handle_if_exit that leaves the placeholder in the list
handle_if_exit_unpatched(st, jz_pos) == st

\* handle_if after the then-branch of a conditional without else
handle_if_exit(st, jz_pos) ==
    LET end_label == Len(st.bytecode)
    IN  Patch(st, jz_pos, JZ, end_label)

(***************************************************************************)
(* The inputs                                                              *)
(***************************************************************************)
MaxCtlLines == 4
MaxVarLines == 4

SeqsUpTo(S, n) == UNION {[1..k -> S] : k \in 0..n}

\* Block structure over one defined variable: every sequence of at most
\* MaxCtlLines of these lines, after a first line that defines x.
CtlLines ==
    { <<"print", "x">>, <<"halt">>,
      <<"if", "x", "<", "1">>, <<"else">>, <<"end">>,
      <<"while", "x", "<", "1">>, <<"wend">> }

CtlPrograms == {<<(<<"let", "x", "=", "1">>)>> \o p : p \in SeqsUpTo(CtlLines, MaxCtlLines)}

\* Definitions and reads of variables: every sequence of at most MaxVarLines
\* of these lines.
VarLines ==
    { <<"let", "x", "=", "1">>, <<"let", "y", "=", "x", "+", "1">>,
      <<"let", "x", "=", "x", "+", "1">>, <<"let", "z", "=", "x", "<", "y">>,
      <<"print", "x">>, <<"print", "y">>, <<"print", "1">> }

VarPrograms == SeqsUpTo(VarLines, MaxVarLines)

\* The scenarios of the specification (A to E), and deeper or odd programs.
Scenarios ==
    { << <<"let", "x", "=", "10">>, <<"print", "x">> >>,
      << <<"let", "x", "=", "2", "+", "3", "*", "4">>, <<"print", "x">> >>,
      << <<"let", "x", "=", "10">> >>,
      << <<"let", "y", "=", "0">>, <<"while", "y", "<", "3">>,
         <<"let", "y", "=", "y", "+", "1">>, <<"wend">> >>,
      << <<"let", "a", "=", "5">>, <<"if", "a", ">", "3">>, <<"print", "a">>,
         <<"else">>, <<"print", "a">>, <<"end">> >>,
      << <<"let", "x", "=", "1">>, <<"while", "x", "<", "3">>,
         <<"if", "x", "==", "1">>,
         <<"while", "x", "<", "2">>, <<"let", "x", "=", "x", "+", "1">>, <<"wend">>,
         <<"else">>,
         <<"if", "x", ">", "1">>, <<"print", "x">>, <<"else">>, <<"halt">>, <<"end">>,
         <<"end">>, <<"wend">> >>,
      << <<"//note">>, <<>>, <<"let", "x", "=", "(", "1", "+", "2", ")", "*", "3">>,
         <<"#note">>, <<"if", "x", ">=", "x", "-", "1">>, <<"if", "x", "!=", "0">>,
         <<"print", "x">>, <<"endif">>, <<"else">>, <<"print", "-1">>, <<"end">> >>,
      << <<"let", "x", "=", "1">>, <<"if", "x", "<", "1">>, <<"if", "x", "<", "1">>,
         <<"print", "x">>, <<"else">>, <<"halt">>, <<"end">>, <<"end">> >>,
      << <<"let", "x", "=", "1">>, <<"if", "x", "<", "1">>, <<"else">>,
         <<"if", "x", "<", "1">>, <<"print", "x">>, <<"end">>, <<"end">> >>,
      << <<"let", "x", "=", "1">>, <<"while", "x", "<", "1">>, <<"if", "x", "<", "1">>,
         <<"else">>, <<"print", "x">>, <<"end">>, <<"wend">>, <<"print", "x">> >>,
      << <<"let", "x", "=", "1">>, <<"if", "x", "<", "1">>, <<"while", "x", "<", "1">>,
         <<"else">>, <<"print", "x">>, <<"wend">>, <<"end">> >>,
      << <<"let", "x", "=", "1">>, <<"while", "x", "<", "1">>,
         <<"while", "x", "<", "1">>, <<"while", "x", "<", "1">>, <<"print", "x">>,
         <<"wend">>, <<"wend">>, <<"wend">> >>,
      << <<"let", "x", "=", "1">>, <<"if", "x">>, <<"end">> >>,
      << <<"let", "x", "=", "1">>, <<"print", "x">>, <<"goto", "x">> >> }

\* programs with statements of unusual shape
MoreScenarios ==
    { << <<"print">> >>,
      << <<"let", "x", "=">>, <<"halt">> >>,
      << <<"let", "x", "=", "1">>, <<"if", "x", "<">>, <<"end">> >>,
      << <<"let", "x", "=", "1">>, <<"while", "<", "x">>, <<"wend">> >>,
      << <<"let", "x", "=", "1">>, <<"let", "y", "=", "x", "<">>, <<"print", "y">> >>,
      << <<"let", "__literal_1", "=", "5">>, <<"print", "1">> >>,
      << <<"let", "==", "=", "1">>, <<"let", "x", "=", "1", "==", "2", "==", "3">>,
         <<"print", "x">> >>,
      << <<"let", "x", "=", "1">>, <<"let", "y", "=", "x", "==", "1", "==", "2">>,
         <<"print", "y">> >>,
      << <<"let", "<", "=", "1">>, <<"if", "1", "<", "2", "<", "3">>, <<"end">> >> }

Programs == CtlPrograms \cup VarPrograms \cup Scenarios \cup MoreScenarios

(***************************************************************************)
(* The state                                                               *)
(***************************************************************************)
VARIABLES
    src,             \* the lines handed to compile
    stack,           \* the call stack: compile_raw frames and the handlers waiting on them
    bytecode,        \* self.bytecode
    variables,       \* self.variables
    next_var_index,  \* self.next_var_index
    status,          \* "running", "returned" (compile returned), "exit" (sys.exit(1))
    err,             \* the error of the exit
    output,          \* the instructions of the returned program; <<>> while none is returned
    open,            \* history: what was observed of the blocks being compiled
    closed,          \* history: what was observed of the blocks compiled
    expression,      \* the argument of infix_to_postfix
    postfix,         \* its result
    compiled,        \* history: the let, print and halt statements compiled, in order
    machine,         \* the stack machine: "off", "on", "halted", "fault"
    pc,              \* the address of its next instruction
    operands,        \* its operand stack, top last
    memory,          \* its variable slots: <<>> for a slot never stored to, else <<value>>
    printed,         \* the values it printed
    hits,            \* history: how many times it executed the instruction at each address
    steps            \* history: how many instructions it executed

\* the state of the compiler, and that of the machine
compiler_state == <<src, stack, bytecode, variables, next_var_index, status, err, output,
                    open, closed, expression, postfix, compiled>>

vm == <<machine, pc, operands, memory, printed, hits, steps>>

vars == <<compiler_state, vm>>

\* the machine before it is given a program
MachineOff ==
    /\ machine = "off"
    /\ pc = 0
    /\ operands = <<>>
    /\ memory = <<>>
    /\ printed = <<>>
    /\ hits = <<>>
    /\ steps = 0

Self ==
    [bytecode |-> bytecode, variables |-> variables,
     next_var_index |-> next_var_index, err |-> NoError]

\* The object's fields after a handler that left the state st, with the call
\* stack and the history it leads to.  An exit ends the run where it is.
Commit(st, new_stack, new_open, new_closed) ==
    /\ bytecode' = st.bytecode
    /\ variables' = st.variables
    /\ next_var_index' = st.next_var_index
    /\ err' = st.err
    /\ status' = IF st.err /= NoError THEN "exit" ELSE status
    /\ stack' = IF st.err /= NoError THEN stack ELSE new_stack
    /\ open' = IF st.err /= NoError THEN open ELSE new_open
    /\ closed' = IF st.err /= NoError THEN closed ELSE new_closed

Frame(kind, lines, i_next, jz_pos, jmp_pos, addr, else_body) ==
    [kind |-> kind, lines |-> lines, i |-> 0, i_next |-> i_next, jz_pos |-> jz_pos,
     jmp_pos |-> jmp_pos, addr |-> addr, else_body |-> else_body]

\* a call of compile_raw(lines), at i = 0
RawFrame(lines) == Frame("compile_raw", lines, 0, 0, 0, 0, <<>>)

Top == stack[Len(stack)]

Below == stack[Len(stack) - 1]

\* compile_raw is at a line
AtLine ==
    /\ status = "running"
    /\ Top.kind = "compile_raw"
    /\ Top.i < Len(Top.lines)

CurrentLine == Top.lines[Top.i + 1]

\* the loop of compile_raw has ended and the call returns to the handler kind
Returning(kind) ==
    /\ status = "running"
    /\ Top.kind = "compile_raw"
    /\ Top.i >= Len(Top.lines)
    /\ Len(stack) > 1
    /\ Below.kind = kind

\* the stack with the compile_raw frame on top moved to line i
Advance(i) == [stack EXCEPT ![Len(stack)].i = i]

\* the stack after the handler below the top returned to its compile_raw,
\* which goes on at i_next
Return == LET caller == Len(stack) - 2
          IN  [SubSeq(stack, 1, caller) EXCEPT ![caller].i = Below.i_next]

\* The lines of the compile_raw on top of the stack are the lines of the
\* source after line Base: the whole source, the lines after the opening line
\* of the innermost block being compiled, or those after its else.
Base ==
    IF open = <<>> THEN 0
    ELSE IF open[Len(open)].else_line /= 0 - 1 THEN open[Len(open)].else_line
    ELSE open[Len(open)].line

\* the place in the source of the line compile_raw is at
SourceIndex == Base + Top.i + 1

\* the blocks being compiled, outermost first, each with its opening line and
\* the branch of it being compiled
Path ==
    [k \in 1..Len(open) |->
        [line |-> open[k].line,
         branch |-> IF open[k].kind = "while" THEN "body"
                    ELSE IF open[k].else_line /= 0 - 1 THEN "else"
                    ELSE "then"]]

\* what is observed of a block when its handler starts: its opening line and
\* the line compile_raw goes on at after it (resume), both as places in the
\* source, and where its code starts
Observation(kind, cond_start, jz_at, has_else, i_next) ==
    [kind |-> kind, depth |-> Len(open) + 1, cond_start |-> cond_start,
     jz_at |-> jz_at, has_else |-> has_else,
     body_end |-> 0 - 1, else_first |-> 0 - 1, end |-> 0 - 1,
     line |-> SourceIndex, resume |-> Base + i_next + 1, else_line |-> 0 - 1]

\* an else line of the block that is inside no nested if of it
ElseAtDepth0(block) ==
    \E k \in 2..Len(block) :
        /\ block[k] = <<"else">>
        /\ Cardinality({j \in 2..(k - 1) : StartsWith(block[j], "if")})
             = Cardinality({j \in 2..(k - 1) : StartsWith(block[j], "end")})

(***************************************************************************)
(* Compiler.compile(lines), one step per handler.  compile_raw's frame is  *)
(* on top of the stack while its loop runs; a block handler that called    *)
(* compile_raw on a body waits below that body's frame.                    *)
(***************************************************************************)
Init ==
    /\ src \in Programs
    /\ stack = <<RawFrame(src)>>
    /\ bytecode = <<>>
    /\ variables = EmptyVariables
    /\ next_var_index = 0
    /\ status = "running"
    /\ err = NoError
    /\ output = <<>>
    /\ open = <<>>
    /\ closed = {}
    /\ expression = <<>>
    /\ postfix = <<>>
    /\ MachineOff
    /\ compiled = <<>>

\* compile_raw 202-204: a blank line or a comment
SkipLine ==
    /\ AtLine
    /\ IsBlankOrComment(CurrentLine)
    /\ stack' = Advance(Top.i + 1)
    /\ UNCHANGED <<src, bytecode, variables, next_var_index, status, err, output,
                   open, closed, expression, postfix, vm, compiled>>

\* compile_raw 223-225 with compile_line and the handler of the command cmd
Statement(cmd) ==
    /\ AtLine
    /\ ~IsBlankOrComment(CurrentLine)
    /\ CurrentLine[1] = cmd
    /\ Commit(compile_line(Self, CurrentLine), Advance(Top.i + 1), open, closed)
    /\ compiled' = IF compile_line(Self, CurrentLine).err /= NoError THEN compiled
                   ELSE Append(compiled, [index |-> SourceIndex, line |-> CurrentLine,
                                          path |-> Path])
    /\ UNCHANGED <<src, output, expression, postfix, vm>>

AssignmentStmt == Statement("let")

PrintStmt == Statement("print")

HaltStmt == Statement("halt")

\* an end, else or wend line that reaches compile_line, and any other command
OtherLine ==
    /\ AtLine
    /\ ~IsBlankOrComment(CurrentLine)
    /\ CurrentLine[1] \notin {"while", "if", "let", "print", "halt"}
    /\ Commit(compile_line(Self, CurrentLine), Advance(Top.i + 1), open, closed)
    /\ UNCHANGED <<src, output, expression, postfix, vm, compiled>>

\* compile_raw 209-212 and handle_while up to its call of compile_raw
While ==
    /\ AtLine
    /\ ~IsBlankOrComment(CurrentLine)
    /\ CurrentLine[1] = "while"
    /\ LET c == collect_block(Top.lines, Top.i, "while", "wend")
           while_condition == SliceFrom(c.block[1], 1)
           while_body == Inner(c.block)
           h == handle_while_enter(Self, while_condition)
       IN  Commit(h.st,
                  stack \o << Frame("handle_while", <<>>, c.i, h.jz_pos, 0,
                                    h.start_addr, <<>>),
                              RawFrame(while_body) >>,
                  Append(open, Observation("while", Len(bytecode),
                                           Len(h.st.bytecode) - 1, FALSE, c.i)),
                  closed)
    /\ UNCHANGED <<src, output, expression, postfix, vm, compiled>>

\* handle_while 116-119, then compile_raw goes on after the block
WhileEnd ==
    /\ Returning("handle_while")
    /\ LET st == handle_while_exit(Self, Below.addr, Below.jz_pos)
       IN  Commit(st, Return, SubSeq(open, 1, Len(open) - 1),
                  closed \cup {[open[Len(open)] EXCEPT !.body_end = Len(bytecode),
                                                       !.end = Len(st.bytecode)]})
    /\ UNCHANGED <<src, output, expression, postfix, vm, compiled>>

\* compile_raw 213-222 and handle_if up to its first call of compile_raw
If ==
    /\ AtLine
    /\ ~IsBlankOrComment(CurrentLine)
    /\ CurrentLine[1] = "if"
    /\ LET c == collect_block(Top.lines, Top.i, "if", "end")
           h == handle_if_enter(Self, c.block, HasElse(c.block))
       IN  Commit(h.st,
                  stack \o << IF h.with_else
                              THEN Frame("handle_if_then", <<>>, c.i, h.jz_pos, 0, 0,
                                         h.else_body)
                              ELSE Frame("handle_if", <<>>, c.i, h.jz_pos, 0, 0, <<>>),
                              RawFrame(h.if_body) >>,
                  Append(open, Observation("if", Len(bytecode), Len(h.st.bytecode) - 1,
                                           ElseAtDepth0(c.block), c.i)),
                  closed)
    /\ UNCHANGED <<src, output, expression, postfix, vm, compiled>>

\* handle_if 152-156: between the then-branch and the else branch
Else ==
    /\ Returning("handle_if_then")
    /\ LET h == handle_if_else(Self)
       IN  Commit(h.st,
                  SubSeq(stack, 1, Len(stack) - 2) \o
                     << Frame("handle_if_else", <<>>, Below.i_next, Below.jz_pos,
                              h.jmp_pos, h.else_label, <<>>),
                        RawFrame(Below.else_body) >>,
                  [open EXCEPT ![Len(open)].body_end = Len(bytecode),
                               ![Len(open)].else_first = Len(h.st.bytecode),
                               ![Len(open)].else_line =
                                   open[Len(open)].line + Len(Top.lines) + 1],
                  closed)
    /\ UNCHANGED <<src, output, expression, postfix, vm, compiled>>

\* handle_if 158-160, then compile_raw goes on after the block
IfElseEnd ==
    /\ Returning("handle_if_else")
    /\ Commit(handle_if_else_exit(Self, Below.jz_pos, Below.jmp_pos, Below.addr),
              Return, SubSeq(open, 1, Len(open) - 1),
              closed \cup {[open[Len(open)] EXCEPT !.end = Len(bytecode)]})
    /\ UNCHANGED <<src, output, expression, postfix, vm, compiled>>

\* handle_if 166-167, then compile_raw goes on after the block
IfEnd ==
    /\ Returning("handle_if")
    /\ Commit(handle_if_exit(Self, Below.jz_pos),
              Return, SubSeq(open, 1, Len(open) - 1),
              closed \cup {[open[Len(open)] EXCEPT !.body_end = Len(bytecode),
                                                   !.end = Len(bytecode)]})
    /\ UNCHANGED <<src, output, expression, postfix, vm, compiled>>

\* compile 247-251, after compile_raw(lines) returned
Finish ==
    /\ status = "running"
    /\ Len(stack) = 1
    /\ Top.i >= Len(Top.lines)
    /\ LET h == AddTrailingHalt(Self)
           c == check_unused_variables(h)
       IN  /\ bytecode' = c.bytecode
           /\ variables' = c.variables
           /\ next_var_index' = c.next_var_index
           /\ err' = c.err
           /\ status' = IF c.err /= NoError THEN "exit" ELSE "returned"
           /\ output' = IF c.err /= NoError THEN <<>> ELSE c.bytecode
    /\ UNCHANGED <<src, stack, open, closed, expression, postfix, vm, compiled>>

Next ==
    \/ SkipLine
    \/ AssignmentStmt
    \/ PrintStmt
    \/ HaltStmt
    \/ OtherLine
    \/ While
    \/ WhileEnd
    \/ If
    \/ Else
    \/ IfElseEnd
    \/ IfEnd
    \/ Finish

Spec == Init /\ [][Next]_vars

(***************************************************************************)
(* infix_to_postfix on its own: the argument is any well-formed infix      *)
(* expression of at most MaxOperands operands, the k-th operand being the  *)
(* k-th name, with at most one pair of parentheses around each             *)
(* subexpression.                                                          *)
(***************************************************************************)
MaxOperands == 3

OperandNames == <<"a", "b", "c", "d", "e">>

\* the expressions of exactly k operands, each operand written "a": bare, and
\* bare or parenthesised
RECURSIVE Bare(_)
Wrapped(k) == Bare(k) \cup {<<"(">> \o e \o <<")">> : e \in Bare(k)}

Bare(k) ==
    IF k = 1 THEN {<<"a">>}
    ELSE UNION { {l \o <<op>> \o r : l \in Wrapped(i), r \in Wrapped(k - i),
                                     op \in ArithOperators} : i \in 1..(k - 1) }

IsOperand(tok) == tok \notin ArithOperators \cup {"(", ")"}

\* the expression with its k-th operand renamed to the k-th name
NameOperands(e) ==
    [k \in 1..Len(e) |->
        IF IsOperand(e[k])
        THEN OperandNames[Cardinality({j \in 1..k : IsOperand(e[j])})]
        ELSE e[k]]

Expressions == {NameOperands(e) : e \in UNION {Wrapped(k) : k \in 1..MaxOperands}}

InitExpr ==
    /\ expression \in Expressions
    /\ postfix = <<>>
    /\ status = "infix"
    /\ src = <<>>
    /\ stack = <<>>
    /\ bytecode = <<>>
    /\ variables = EmptyVariables
    /\ next_var_index = 0
    /\ err = NoError
    /\ output = <<>>
    /\ open = <<>>
    /\ closed = {}
    /\ MachineOff
    /\ compiled = <<>>

\* postfix = infix_to_postfix(expr_tokens)
Lower ==
    /\ status = "infix"
    /\ postfix' = infix_to_postfix(expression)
    /\ status' = "postfix"
    /\ UNCHANGED <<src, stack, bytecode, variables, next_var_index, err, output,
                   open, closed, expression, vm, compiled>>

NextExpr == Lower

SpecExpr == InitExpr /\ [][NextExpr]_vars

(***************************************************************************)
(* The stack machine of the instruction set (main.py, module docstring)    *)
(* running a returned program                                              *)
(***************************************************************************)
MaxRunSteps == 40

CountingLoop ==
    << <<"let", "y", "=", "0">>, <<"while", "y", "<", "3">>,
       <<"let", "y", "=", "y", "+", "1">>, <<"wend">> >>

RunPrograms ==
    { CountingLoop,
      << <<"//note">>, <<"let", "x", "=", "1">>, <<"if", "x", "<", "1">>, <<"halt">>,
         <<"end">> >>,
      << <<"let", "a", "=", "5">>, <<"if", "a", ">", "3">>, <<"print", "a">>,
         <<"else">>, <<"print", "a">>, <<"end">> >>,
      << <<"let", "x", "=", "1">>, <<"print", "x">>, <<"end">> >>,
      << <<"let", "x", "=", "2", "+", "3", "*", "4">>, <<"print", "x">> >>,
      << <<"let", "x", "=", "10">>, <<"let", "y", "=", "x", "/", "3", "-", "5">>,
         <<"print", "y">>, <<"print", "1">> >>,
      << <<"let", "x", "=", "1">>, <<"while", "x", "<", "3">>, <<"print", "x">>,
         <<"wend">> >> }

InitRun ==
    /\ src \in RunPrograms
    /\ stack = <<RawFrame(src)>>
    /\ bytecode = <<>>
    /\ variables = EmptyVariables
    /\ next_var_index = 0
    /\ status = "running"
    /\ err = NoError
    /\ output = <<>>
    /\ open = <<>>
    /\ closed = {}
    /\ expression = <<>>
    /\ postfix = <<>>
    /\ MachineOff
    /\ compiled = <<>>

\* the machine is given the returned program
Boot ==
    /\ status = "returned"
    /\ machine = "off"
    /\ machine' = "on"
    /\ memory' = [s \in 1..next_var_index |-> <<>>]
    /\ hits' = [a \in 1..Len(output) |-> 0]
    /\ UNCHANGED <<compiler_state, pc, operands, printed, steps>>

\* the instruction at pc
Fetch == At(output, pc)

\* the k-th operand from the top, and the stack without its n top operands
Operand(k) == operands[Len(operands) - k]

Popped(n) == SubSeq(operands, 1, Len(operands) - n)

\* the machine is about to execute the instruction at pc
Executing ==
    /\ machine = "on"
    /\ steps < MaxRunSteps
    /\ pc < Len(output)

\* one instruction executed: its effect when it can execute (ok), else the
\* machine stops with a fault
Execute(ok, new_pc, new_operands, new_memory, new_printed, new_machine) ==
    /\ hits' = [hits EXCEPT ![pc + 1] = @ + 1]
    /\ steps' = steps + 1
    /\ IF ok
       THEN /\ pc' = new_pc
            /\ operands' = new_operands
            /\ memory' = new_memory
            /\ printed' = new_printed
            /\ machine' = new_machine
       ELSE /\ machine' = "fault"
            /\ UNCHANGED <<pc, operands, memory, printed>>
    /\ UNCHANGED compiler_state

\* the slot is one of the memory and was stored to
Stored(slot) == slot + 1 \in DOMAIN memory /\ memory[slot + 1] /= <<>>

\* 1 = PUSH <4-byte operand>
ExecPush ==
    /\ Executing
    /\ Fetch.op = PUSH
    /\ Execute(TRUE, pc + 1, Append(operands, Fetch.arg), memory, printed, machine)

\* 2 = LOAD <index>
ExecLoad ==
    /\ Executing
    /\ Fetch.op = LOAD
    /\ Execute(Stored(Fetch.arg), pc + 1, Append(operands, memory[Fetch.arg + 1][1]),
               memory, printed, machine)

\* 3 = STORE <index>
ExecStore ==
    /\ Executing
    /\ Fetch.op = STORE
    /\ Execute(Len(operands) >= 1 /\ Fetch.arg + 1 \in DOMAIN memory, pc + 1, Popped(1),
               [memory EXCEPT ![Fetch.arg + 1] = <<Operand(0)>>], printed, machine)

Abs(n) == IF n < 0 THEN 0 - n ELSE n

\* a / b rounded towards zero, and rounded down
Truncated(a, b) ==
    IF (a < 0) = (b < 0) THEN Abs(a) \div Abs(b) ELSE 0 - (Abs(a) \div Abs(b))

Floored(a, b) ==
    IF (a < 0) = (b < 0) \/ Abs(a) % Abs(b) = 0 THEN Truncated(a, b)
    ELSE Truncated(a, b) - 1

\* the results of an arithmetic instruction on a (pushed first) and b; the
\* instruction set does not say how DIV rounds, and gives none for b = 0
ArithResults(op, a, b) ==
    CASE op = ADD -> {a + b}
      [] op = SUB -> {a - b}
      [] op = MUL -> {a * b}
      [] op = DIV -> IF b = 0 THEN {} ELSE {Truncated(a, b), Floored(a, b)}

\* 4 = ADD, 5 = SUB, 6 = MUL, 7 = DIV
ExecArith ==
    /\ Executing
    /\ Fetch.op \in {ADD, SUB, MUL, DIV}
    /\ IF Len(operands) >= 2 /\ ArithResults(Fetch.op, Operand(1), Operand(0)) /= {}
       THEN \E r \in ArithResults(Fetch.op, Operand(1), Operand(0)) :
               Execute(TRUE, pc + 1, Append(Popped(2), r), memory, printed, machine)
       ELSE Execute(FALSE, pc, operands, memory, printed, machine)

\* 8 = PRINT, with the slot the compiler gives it
ExecPrint ==
    /\ Executing
    /\ Fetch.op = PRINT
    /\ Execute(Stored(Fetch.arg), pc + 1, operands, memory,
               Append(printed, memory[Fetch.arg + 1][1]), machine)

\* 9 = HALT
ExecHalt ==
    /\ Executing
    /\ Fetch.op = HALT
    /\ Execute(TRUE, pc, operands, memory, printed, "halted")

\* the comparison op holds of a (pushed first) and b
CmpHolds(op, a, b) ==
    CASE op = CMP_EQ -> a = b
      [] op = CMP_NEQ -> a /= b
      [] op = CMP_LT -> a < b
      [] op = CMP_LTE -> a <= b
      [] op = CMP_GT -> a > b
      [] op = CMP_GTE -> a >= b

\* 10..15 = CMP_*: pop two, push 1 if the comparison holds, 0 if not
ExecCmp ==
    /\ Executing
    /\ Fetch.op \in {CMP_EQ, CMP_NEQ, CMP_LT, CMP_LTE, CMP_GT, CMP_GTE}
    /\ Execute(Len(operands) >= 2, pc + 1,
               Append(Popped(2), IF CmpHolds(Fetch.op, Operand(1), Operand(0)) THEN 1 ELSE 0),
               memory, printed, machine)

\* 16 = JMP <address>: jump to the address
ExecJmp ==
    /\ Executing
    /\ Fetch.op = JMP
    /\ Execute(TRUE, Fetch.arg, operands, memory, printed, machine)

\* 17 = JZ <address>: jump if the top of the stack is 0; 18 = JNZ <address>:
\* jump if it is not 0; the top is consumed
ExecBranch ==
    /\ Executing
    /\ Fetch.op \in {JZ, JNZ}
    /\ Execute(Len(operands) >= 1,
               IF (Operand(0) = 0) = (Fetch.op = JZ) THEN Fetch.arg ELSE pc + 1,
               Popped(1), memory, printed, machine)

\* no instruction at pc, or none of the instruction set
ExecNone ==
    /\ machine = "on"
    /\ steps < MaxRunSteps
    /\ IF pc >= Len(output) THEN TRUE ELSE Fetch.op \notin PUSH..JNZ
    /\ machine' = "fault"
    /\ steps' = steps + 1
    /\ UNCHANGED <<compiler_state, pc, operands, memory, printed, hits>>

\* a step of the machine
MachineStep ==
    \/ Boot
    \/ ExecPush
    \/ ExecLoad
    \/ ExecStore
    \/ ExecArith
    \/ ExecPrint
    \/ ExecHalt
    \/ ExecCmp
    \/ ExecJmp
    \/ ExecBranch
    \/ ExecNone

NextRun == Next \/ MachineStep

\* a machine that is given a program runs it without stopping halfway
SpecRun == InitRun /\ [][NextRun]_vars /\ WF_vm(MachineStep)

(***************************************************************************)
(* What the claims are stated with                                         *)
(***************************************************************************)
HaltInstr == Instr(HALT, 0)

CmpOpcodes == {CMP_EQ, CMP_NEQ, CMP_LT, CMP_LTE, CMP_GT, CMP_GTE}

\* compile_raw(lines) of compile has returned
SourceCompiled == Len(stack) = 1 /\ Top.i >= Len(Top.lines)

\* line i of the source opens a block that no later line closes: no closing
\* line after it has as many opening as closing lines in between
Unclosed(i, open_tag, close_tag) ==
    /\ Len(src[i]) > 0
    /\ src[i][1] = open_tag
    /\ ~\E j \in (i + 1)..Len(src) :
          /\ StartsWith(src[j], close_tag)
          /\ Cardinality({k \in (i + 1)..(j - 1) : StartsWith(src[k], open_tag)})
               = Cardinality({k \in (i + 1)..(j - 1) : StartsWith(src[k], close_tag)})

IsName(tok) == tok \notin ArithOperators \cup CMP_OPERATORS \cup NumberTokens \cup {"(", ")"}

\* the variable names a statement reads
Reads(line) ==
    IF Len(line) = 0 THEN {}
    ELSE IF line[1] = "let" /\ Len(line) >= 4
    THEN {line[k] : k \in {j \in 4..Len(line) : IsName(line[j])}}
    ELSE IF line[1] \in {"if", "while"}
    THEN {line[k] : k \in {j \in 2..Len(line) : IsName(line[j])}}
    ELSE IF line[1] = "print" /\ Len(line) >= 2 /\ IsName(line[2])
    THEN {line[2]}
    ELSE {}

\* the statement is an assignment to v
Assigns(line, v) == Len(line) >= 2 /\ line[1] = "let" /\ line[2] = v

\* The parse tree of an infix expression by the standard rules, read by
\* recursive descent: expr = term {(+|-) term}, term = factor {(*|/) factor},
\* factor = operand | ( expr ).  A leaf is <<operand>>, a node <<op, l, r>>.
RECURSIVE InfixExpr(_, _)
RECURSIVE InfixExprRest(_, _, _)
RECURSIVE InfixTerm(_, _)
RECURSIVE InfixTermRest(_, _, _)
RECURSIVE InfixFactor(_, _)
InfixFactor(toks, k) ==
    IF toks[k] = "("
    THEN LET e == InfixExpr(toks, k + 1) IN [tree |-> e.tree, next |-> e.next + 1]
    ELSE [tree |-> <<toks[k]>>, next |-> k + 1]

InfixTermRest(toks, left, k) ==
    IF k <= Len(toks) /\ toks[k] \in {"*", "/"}
    THEN LET f == InfixFactor(toks, k + 1)
         IN  InfixTermRest(toks, <<toks[k], left, f.tree>>, f.next)
    ELSE [tree |-> left, next |-> k]

InfixTerm(toks, k) ==
    LET f == InfixFactor(toks, k) IN InfixTermRest(toks, f.tree, f.next)

InfixExprRest(toks, left, k) ==
    IF k <= Len(toks) /\ toks[k] \in {"+", "-"}
    THEN LET t == InfixTerm(toks, k + 1)
         IN  InfixExprRest(toks, <<toks[k], left, t.tree>>, t.next)
    ELSE [tree |-> left, next |-> k]

InfixExpr(toks, k) ==
    LET t == InfixTerm(toks, k) IN InfixExprRest(toks, t.tree, t.next)

InfixTree(toks) == InfixExpr(toks, 1).tree

\* The tree a stack machine builds from a postfix sequence: an operand is
\* pushed, an operator pops the right then the left argument and pushes the
\* node.  <<"invalid">> when the stack underflows or does not end with one tree.
RECURSIVE PostfixRun(_, _, _)
PostfixRun(toks, k, st) ==
    IF k > Len(toks) THEN (IF Len(st) = 1 THEN st[1] ELSE <<"invalid">>)
    ELSE IF toks[k] \in ArithOperators
    THEN IF Len(st) < 2 THEN <<"invalid">>
         ELSE PostfixRun(toks, k + 1,
                         Append(SubSeq(st, 1, Len(st) - 2),
                                <<toks[k], st[Len(st) - 1], st[Len(st)]>>))
    ELSE PostfixRun(toks, k + 1, Append(st, <<toks[k]>>))

PostfixTree(toks) == PostfixRun(toks, 1, <<>>)

(***************************************************************************)
(* The claims                                                              *)
(***************************************************************************)

\* C1: in every program compile returns, the operand of every Jump (16) and
\* JumpIfZero (17) is the address of an instruction of that program:
\* 0 <= target < length of the returned program.
C1_JumpTargetsInProgram ==
    status = "returned" =>
        \A a \in 1..Len(output) :
            output[a].op \in {JMP, JZ} =>
                0 <= output[a].arg /\ output[a].arg < Len(output)

\* C2: for every conditional compiled, at any depth, the instruction right
\* after the condition's comparison is a JumpIfZero; without an else branch it
\* targets the program length right after the then-branch; with an else
\* branch it targets the address of the else branch's first instruction, which
\* follows the Jump emitted right after the then-branch, and that Jump targets
\* the address of the first instruction after the else branch.
C2_IfJumpTargets ==
    \A o \in closed :
        o.kind = "if" =>
            /\ o.cond_start < o.jz_at
            /\ At(bytecode, o.jz_at - 1).op \in CmpOpcodes
            /\ At(bytecode, o.jz_at).op = JZ
            /\ IF o.has_else
               THEN /\ At(bytecode, o.jz_at).arg = o.else_first
                    /\ o.else_first = o.body_end + 1
                    /\ At(bytecode, o.body_end) = Instr(JMP, o.end)
               ELSE At(bytecode, o.jz_at).arg = o.body_end

\* a program was returned that holds, inside another block, a conditional
\* with a then-branch and an else branch that both emit instructions
C2_Witness ==
    /\ status = "returned"
    /\ \E o \in closed :
          /\ o.kind = "if"
          /\ o.has_else
          /\ o.depth >= 2
          /\ o.jz_at + 1 < o.body_end
          /\ o.else_first < o.end

\* C3: for every loop compiled, also inside other blocks, the Jump emitted
\* after the body targets the address of the first instruction of that loop's
\* own condition (no two loops share it), and the loop's JumpIfZero, the
\* instruction right after the condition's comparison, targets the address
\* right after that Jump.
C3_WhileJumpTargets ==
    \A o \in closed :
        o.kind = "while" =>
            /\ o.cond_start < o.jz_at
            /\ At(bytecode, o.jz_at - 1).op \in CmpOpcodes
            /\ At(bytecode, o.body_end) = Instr(JMP, o.cond_start)
            /\ At(bytecode, o.jz_at) = Instr(JZ, o.body_end + 1)
            /\ o.end = o.body_end + 1
            /\ \A q \in closed :
                  (q.kind = "while" /\ q /= o) => q.cond_start /= o.cond_start

\* a program was returned with a loop, inside another loop, whose body
\* emits instructions
C3_Witness ==
    /\ status = "returned"
    /\ \E o, q \in closed :
          /\ o.kind = "while" /\ q.kind = "while"
          /\ o.depth > q.depth
          /\ q.cond_start < o.cond_start /\ o.end < q.end
          /\ o.jz_at + 1 < o.body_end

\* C4: when an if of the source has no matching end, or a while no matching
\* wend, no program is returned.
C4_UnclosedBlockFails ==
    status = "returned" =>
        ~\E i \in 1..Len(src) : Unclosed(i, "if", "end") \/ Unclosed(i, "while", "wend")

\* C5: when a statement reads a variable that no assignment statement
\* strictly earlier in the source targets, no program is returned.
C5_ReadBeforeAssignmentFails ==
    status = "returned" =>
        \A i \in 1..Len(src) :
            \A v \in Reads(src[i]) :
                \E j \in 1..(i - 1) : Assigns(src[j], v)

\* C6: a returned program holds, for every variable defined, a Load or a
\* Print of its slot, and every variable is marked used; when compile_raw
\* has gone through the source and a defined variable was never read, the
\* run ends with the unused-variables error; and a run that ends with an
\* error returns no program.
C6_ReturnsOnlyIfAllRead ==
    /\ status = "returned" =>
          \A n \in DOMAIN variables :
              /\ variables[n].used
              /\ \E a \in 1..Len(output) :
                    output[a].op \in {LOAD, PRINT} /\ output[a].arg = variables[n].index
    /\ (status /= "running" /\ SourceCompiled
          /\ \E n \in DOMAIN variables : ~variables[n].used) =>
          status = "exit" /\ err = "UnusedVariables"
    /\ status = "exit" => output = <<>>

\* the run ended with the unused-variables error, with instructions emitted,
\* one variable read and another not
C6_Witness ==
    /\ status = "exit"
    /\ err = "UnusedVariables"
    /\ bytecode /= <<>>
    /\ output = <<>>
    /\ \E n, m \in DOMAIN variables : variables[n].used /\ ~variables[m].used

\* C7: in every step the list only grows, and an entry of it changes only
\* from a placeholder to the jump that resolves it (PLACEHOLDER_JZ to a
\* JumpIfZero, PLACEHOLDER_JMP to a Jump), so it changes at most once; the
\* returned program is the list, entry by entry at the index it was emitted
\* at, and holds no placeholder.
C7_AppendOnlyButPatches ==
    [][ /\ Len(bytecode') >= Len(bytecode)
        /\ \A a \in 1..Len(bytecode) :
              \/ bytecode'[a] = bytecode[a]
              \/ bytecode[a] = PLACEHOLDER_JZ /\ bytecode'[a].op = JZ
              \/ bytecode[a] = PLACEHOLDER_JMP /\ bytecode'[a].op = JMP
        /\ status' = "returned" =>
              /\ output' = bytecode'
              /\ \A a \in 1..Len(output') :
                    output'[a] \notin {PLACEHOLDER_JZ, PLACEHOLDER_JMP} ]_vars

\* a program was returned in which a JumpIfZero and a Jump of a conditional
\* with else and the JumpIfZero of a loop were patched
C7_Witness ==
    /\ status = "returned"
    /\ \E o, q \in closed :
          /\ o.kind = "if" /\ o.has_else /\ q.kind = "while"
          /\ At(output, o.jz_at).op = JZ
          /\ At(output, o.body_end).op = JMP
          /\ At(output, q.jz_at).op = JZ

\* C8: the step in which compile returns gives the emitted list when that
\* list ends with Halt, and the emitted list followed by one Halt otherwise
\* (also for an empty list); either way the returned program ends with Halt.
C8_TrailingHalt ==
    [][ (status = "running" /\ status' = "returned") =>
          /\ output' = IF bytecode /= <<>> /\ bytecode[Len(bytecode)] = HaltInstr
                       THEN bytecode
                       ELSE Append(bytecode, HaltInstr)
          /\ output'[Len(output')] = HaltInstr ]_vars

\* a program was returned whose source ends with halt: it holds that Halt
\* and no other
C8_Witness ==
    /\ status = "returned"
    /\ Len(src) >= 2
    /\ src[Len(src)] = <<"halt">>
    /\ Cardinality({a \in 1..Len(output) : output[a] = HaltInstr}) = 1

\* C9: in every step each defined name stays defined with the same slot, a
\* used flag once set stays set, a name defined in the step gets the slot
\* that is the number of names defined before it, and afterwards distinct
\* names have distinct slots, the slots are 0 .. n-1 for n names, and
\* next_var_index is n.
C9_SymbolTable ==
    [][ /\ \A n \in DOMAIN variables :
              /\ n \in DOMAIN variables'
              /\ variables'[n].index = variables[n].index
              /\ variables[n].used => variables'[n].used
        /\ \A n \in DOMAIN variables' \ DOMAIN variables :
              variables'[n].index = Cardinality(DOMAIN variables)
        /\ \A n, m \in DOMAIN variables' :
              n /= m => variables'[n].index /= variables'[m].index
        /\ {variables'[n].index : n \in DOMAIN variables'} = 0..(next_var_index' - 1)
        /\ next_var_index' = Cardinality(DOMAIN variables') ]_vars

\* a program was returned whose source assigns to a variable and later
\* assigns to it again reading it, and defines another variable too
C9_Witness ==
    /\ status = "returned"
    /\ Cardinality(DOMAIN variables) >= 2
    /\ \E i, j \in 1..Len(src) :
          /\ i < j
          /\ \E v \in DOMAIN variables :
                Assigns(src[i], v) /\ v \in Reads(src[j]) /\ Assigns(src[j], v)

\* C10: for a well-formed infix expression, the result of infix_to_postfix
\* holds the operands in the order of the expression, holds every operator of
\* it and no parenthesis, and a stack machine builds from it the parse tree
\* of the expression by the standard rules (* and / bind tighter than + and -,
\* all associate to the left, parentheses group), so it evaluates to the
\* same value; a + b * c gives a b c * +, (a + b) * c gives a b + c *, and
\* a - b - c gives a b - c -.
C10_PostfixOfInfix ==
    status = "postfix" =>
        /\ SelectSeq(postfix, IsOperand) = SelectSeq(expression, IsOperand)
        /\ \A k \in 1..Len(postfix) : postfix[k] \notin {"(", ")"}
        /\ Len(postfix) = Cardinality({k \in 1..Len(expression) :
                                         expression[k] \notin {"(", ")"}})
        /\ PostfixTree(postfix) = InfixTree(expression)
        /\ expression = <<"a", "+", "b", "*", "c">> =>
              postfix = <<"a", "b", "c", "*", "+">>
        /\ expression = <<"(", "a", "+", "b", ")", "*", "c">> =>
              postfix = <<"a", "b", "+", "c", "*">>
        /\ expression = <<"a", "-", "b", "-", "c">> =>
              postfix = <<"a", "b", "-", "c", "-">>

\* (a + b) * c was lowered
C10_Witness ==
    /\ status = "postfix"
    /\ expression = <<"(", "a", "+", "b", ")", "*", "c">>
    /\ postfix = <<"a", "b", "+", "c", "*">>

\* A token sequence is a well-formed infix expression: operands (numbers and
\* names) and the four operators alternate, starting and ending with an
\* operand, and the parentheses are balanced, each around an expression.
RECURSIVE InfixScan(_, _, _, _)
InfixScan(toks, k, depth, want_operand) ==
    IF k > Len(toks) THEN depth = 0 /\ ~want_operand
    ELSE IF toks[k] = "("
    THEN want_operand /\ InfixScan(toks, k + 1, depth + 1, TRUE)
    ELSE IF toks[k] = ")"
    THEN ~want_operand /\ depth > 0 /\ InfixScan(toks, k + 1, depth - 1, FALSE)
    ELSE IF toks[k] \in ArithOperators
    THEN ~want_operand /\ InfixScan(toks, k + 1, depth, TRUE)
    ELSE /\ IsNumber(toks[k]) \/ IsName(toks[k])
         /\ want_operand
         /\ InfixScan(toks, k + 1, depth, FALSE)

WellFormedInfix(toks) == InfixScan(toks, 1, 0, TRUE)

\* The instructions of a parse tree with the slots of the table vs: the left
\* argument, the right argument, then the operator; a number is pushed, a
\* name loaded.
RECURSIVE TreeCode(_, _)
TreeCode(tree, vs) ==
    IF Len(tree) = 1
    THEN IF IsNumber(tree[1]) THEN <<Instr(PUSH, NumberValue(tree[1]))>>
         ELSE <<Instr(LOAD, vs[tree[1]].index)>>
    ELSE TreeCode(tree[2], vs) \o TreeCode(tree[3], vs) \o <<Instr(OP_MAP(tree[1]), 0)>>

\* the lowering of a well-formed infix expression
InfixCode(toks, vs) == TreeCode(InfixTree(toks), vs)

\* the 1-based positions of the comparison operators of a token sequence
CmpPositions(toks) == {k \in 1..Len(toks) : toks[k] \in CMP_OPERATORS}

FirstCmpPosition(toks) ==
    CHOOSE k \in CmpPositions(toks) : \A j \in CmpPositions(toks) : k <= j

\* the two sides of the first comparison operator
LeftOfCmp(toks) == SubSeq(toks, 1, FirstCmpPosition(toks) - 1)

RightOfCmp(toks) == SubSeq(toks, FirstCmpPosition(toks) + 1, Len(toks))

\* the expression (without comparison) or the two sides of its first
\* comparison operator are well-formed infix
WellFormedSides(toks) ==
    IF CmpPositions(toks) = {} THEN WellFormedInfix(toks)
    ELSE WellFormedInfix(LeftOfCmp(toks)) /\ WellFormedInfix(RightOfCmp(toks))

\* the instructions of an expression with at most its first comparison
\* operator taken as one
ExpressionCode(toks, vs) ==
    IF CmpPositions(toks) = {} THEN InfixCode(toks, vs)
    ELSE InfixCode(LeftOfCmp(toks), vs) \o InfixCode(RightOfCmp(toks), vs)
           \o <<Instr(CMP_OP_MAP(toks[FirstCmpPosition(toks)]), 0)>>

\* compile_raw is at an assignment with a well-formed right-hand side
AtAssignment ==
    /\ AtLine
    /\ Len(CurrentLine) >= 4
    /\ CurrentLine[1] = "let"
    /\ WellFormedSides(SubSeq(CurrentLine, 4, Len(CurrentLine)))

\* C11: the step of an assignment let t = expr with a well-formed expr whose
\* names are t or defined before succeeds, and appends exactly the lowering
\* of expr (of the tokens before its first comparison operator, of those
\* after it, then the comparison instruction, when it has one) followed by
\* Store(slot of t), all with the slots of the table after the step, in which
\* t is defined; let x = 2 + 3 * 4 appends Push 2, Push 3, Push 4, Mul, Add,
\* Store(x), and let x = x + 1 loads and stores one slot.
C11_AssignmentCode ==
    [][ (AtAssignment /\ Reads(CurrentLine) \subseteq DOMAIN variables \cup {CurrentLine[2]}) =>
          LET t == CurrentLine[2]
              expr == SubSeq(CurrentLine, 4, Len(CurrentLine))
          IN  /\ status' = "running"
              /\ t \in DOMAIN variables'
              /\ bytecode' = bytecode \o ExpressionCode(expr, variables')
                                      \o <<Instr(STORE, variables'[t].index)>>
              /\ expr = <<"2", "+", "3", "*", "4">> =>
                    bytecode' = bytecode \o
                        << Instr(PUSH, 2), Instr(PUSH, 3), Instr(PUSH, 4), Instr(MUL, 0),
                           Instr(ADD, 0), Instr(STORE, variables'[t].index) >>
              /\ (t = "x" /\ expr = <<"x", "+", "1">>) =>
                    bytecode' = bytecode \o
                        << Instr(LOAD, variables'["x"].index), Instr(PUSH, 1),
                           Instr(ADD, 0), Instr(STORE, variables'["x"].index) >> ]_vars

\* the first statement, let x = x + 1, was compiled: x has slot 0, loaded
\* and stored
C11_Witness ==
    /\ src /= <<>>
    /\ src[1] = <<"let", "x", "=", "x", "+", "1">>
    /\ bytecode = <<Instr(LOAD, 0), Instr(PUSH, 1), Instr(ADD, 0), Instr(STORE, 0)>>

\* one side of the first comparison operator of the tokens is empty
EmptySide(toks) ==
    /\ CmpPositions(toks) /= {}
    /\ LeftOfCmp(toks) = <<>> \/ RightOfCmp(toks) = <<>>

\* the statement has too few tokens for its shape
Malformed(line) ==
    /\ Len(line) > 0
    /\ \/ line[1] = "let" /\ Len(line) < 4
       \/ line[1] = "print" /\ Len(line) < 2
       \/ line[1] \in {"if", "while"} /\ EmptySide(SubSeq(line, 2, Len(line)))
       \/ line[1] = "let" /\ Len(line) >= 4 /\ EmptySide(SubSeq(line, 4, Len(line)))

\* C12: a program is returned only if no statement of the source has too few
\* tokens for its shape (a let of fewer than four tokens, a print without
\* operand, a comparison with an empty side).
C12_MalformedStatementFails ==
    status = "returned" => \A i \in 1..Len(src) : ~Malformed(src[i])

\* The blocks of the source open after its first k lines, innermost last, by
\* the block structure of the language: if and while open a block, end
\* closes an innermost if, wend an innermost while.
RECURSIVE OpenBlocks(_)
OpenBlocks(k) ==
    IF k = 0 THEN <<>>
    ELSE LET before == OpenBlocks(k - 1)
             line == src[k]
             innermost == IF before = <<>> THEN "none" ELSE before[Len(before)]
         IN  IF Len(line) = 0 THEN before
             ELSE IF line[1] \in {"if", "while"} THEN Append(before, line[1])
             ELSE IF \/ line = <<"end">> /\ innermost = "if"
                     \/ line = <<"wend">> /\ innermost = "while"
             THEN SubSeq(before, 1, Len(before) - 1)
             ELSE before

\* line i is an end, else or wend that closes or splits no open block
Stray(i) ==
    LET before == OpenBlocks(i - 1)
        innermost == IF before = <<>> THEN "none" ELSE before[Len(before)]
    IN  \/ src[i] \in {<<"end">>, <<"else">>} /\ innermost /= "if"
        \/ src[i] = <<"wend">> /\ innermost /= "while"

\* line i is a statement that is not recognised in its position
Unrecognised(i) ==
    /\ ~IsBlankOrComment(src[i])
    /\ \/ src[i][1] \notin {"let", "print", "halt", "if", "while", "end", "else", "wend"}
       \/ Stray(i)

\* C13: a program is returned only if every statement of the source that is
\* neither blank nor a comment starts with let, print, halt, if or while, or
\* is an end, else or wend that closes or splits an open block.
C13_UnknownStatementFails ==
    status = "returned" => \A i \in 1..Len(src) : ~Unrecognised(i)

\* the variables that the let statements of the source define
LetDefined == {src[i][2] : i \in {j \in 1..Len(src) : Len(src[j]) >= 4 /\ src[j][1] = "let"}}

\* compile_raw is at a print of a numeric literal
AtPrintLiteral ==
    /\ AtLine
    /\ Len(CurrentLine) >= 2
    /\ CurrentLine[1] = "print"
    /\ IsNumber(CurrentLine[2])

\* C14: the step of print <numeric literal> appends Push(literal), Store(s),
\* Print(s) for the slot s of a variable marked used, and leaves every
\* variable that a let statement of the source defines as it was (slot,
\* used flag), s being the slot of none of them.
C14_LiteralPrintIsFresh ==
    [][ AtPrintLiteral =>
          \E name \in DOMAIN variables' :
              LET s == variables'[name].index
              IN  /\ variables'[name].used
                  /\ bytecode' = bytecode \o
                        << Instr(PUSH, NumberValue(CurrentLine[2])), Instr(STORE, s),
                           Instr(PRINT, s) >>
                  /\ \A v \in LetDefined \cap DOMAIN variables :
                        /\ variables'[v] = variables[v]
                        /\ variables[v].index /= s ]_vars

\* the assignment right-hand side or the if/while condition of the line
\* holds two or more comparison operator tokens
SecondComparison(line) ==
    /\ Len(line) > 0
    /\ \/ /\ line[1] = "let"
          /\ Len(line) >= 4
          /\ Cardinality(CmpPositions(SubSeq(line, 4, Len(line)))) >= 2
       \/ /\ line[1] \in {"if", "while"}
          /\ Cardinality(CmpPositions(SubSeq(line, 2, Len(line)))) >= 2

\* C15: a program is returned only if no assignment right-hand side and no
\* if/while condition of the source holds a second comparison operator,
\* whatever variables the program defines.
C15_SecondComparisonRejected ==
    status = "returned" => \A i \in 1..Len(src) : ~SecondComparison(src[i])

\* how many times the machine executed the instruction at address a
Hit(a) == hits[a + 1]

\* the program of the counting loop: the condition at 2..4, its JumpIfZero
\* at 5, the body at 6..9 with its Store at 9, the jump back at 10
CountingLoopCode ==
    << Instr(PUSH, 0), Instr(STORE, 0), Instr(LOAD, 0), Instr(PUSH, 3), Instr(CMP_LT, 0),
       Instr(JZ, 11), Instr(LOAD, 0), Instr(PUSH, 1), Instr(ADD, 0), Instr(STORE, 0),
       Instr(JMP, 2), Instr(HALT, 0) >>

\* C16: the machine running the program compiled from let y = 0 /
\* while y < 3 / let y = y + 1 / wend never faults; it has evaluated the
\* condition once more than, or as often as, it has entered the body, and
\* executes the Store of the body at most three times; given the program, it
\* reaches Halt, and
\* has then evaluated the condition four times, executed the Store of the
\* body exactly three times, emptied its operand stack, and holds y = 3.
C16_CountingLoopRuns ==
    /\ [](src = CountingLoop =>
            /\ status /= "exit"
            /\ status = "returned" => output = CountingLoopCode
            /\ machine /= "fault"
            /\ machine \in {"on", "halted"} =>
                  /\ Hit(6) <= Hit(4) /\ Hit(4) <= Hit(6) + 1
                  /\ pc \in 6..10 => Hit(4) = Hit(6) + (IF pc = 6 THEN 1 ELSE 0)
                  /\ Hit(9) <= 3
            /\ machine = "halted" =>
                  /\ pc = 11
                  /\ Hit(4) = 4 /\ Hit(5) = 4
                  /\ Hit(6) = 3 /\ Hit(9) = 3 /\ Hit(10) = 3
                  /\ operands = <<>>
                  /\ memory = << <<3>> >>)
    /\ ((src = CountingLoop /\ status = "returned") ~> (machine = "halted"))

\* the machine has halted on the counting loop, after three executions of
\* the Store of the body, with y = 3
C16_Witness ==
    /\ src = CountingLoop
    /\ machine = "halted"
    /\ Hit(9) = 3
    /\ memory = << <<3>> >>

\* The blocks of the source open after its first k lines, outermost first,
\* each with its opening line and the branch the next line is in, by the
\* block structure of the language: if opens a block in its then branch,
\* while one in its body, else moves the innermost if to its else branch,
\* end closes the innermost if and wend the innermost while.
RECURSIVE Nesting(_)
Nesting(k) ==
    IF k = 0 THEN <<>>
    ELSE LET before == Nesting(k - 1)
             line == src[k]
             branch == IF before = <<>> THEN "none" ELSE before[Len(before)].branch
         IN  IF Len(line) = 0 THEN before
             ELSE IF line[1] = "if" THEN Append(before, [line |-> k, branch |-> "then"])
             ELSE IF line[1] = "while" THEN Append(before, [line |-> k, branch |-> "body"])
             ELSE IF line = <<"else">> /\ branch = "then"
             THEN [before EXCEPT ![Len(before)].branch = "else"]
             ELSE IF \/ line = <<"end">> /\ branch \in {"then", "else"}
                     \/ line = <<"wend">> /\ branch = "body"
             THEN SubSeq(before, 1, Len(before) - 1)
             ELSE before

\* line k is one of the block structure: it starts with if, while, end or
\* wend, or is an else
BlockLine(k) ==
    \/ \E tag \in {"if", "while", "end", "wend"} : StartsWith(src[k], tag)
    \/ src[k] = <<"else">>

\* The source is well nested: each line of the block structure opens a block
\* or is the else, end or wend of the innermost open block, and no block is
\* left open.
WellNested ==
    /\ \A k \in 1..Len(src) : BlockLine(k) => Nesting(k) /= Nesting(k - 1)
    /\ Nesting(Len(src)) = <<>>

\* the line that closes the block opened at line i of a well-nested source
Match(i) ==
    CHOOSE j \in (i + 1)..Len(src) :
        /\ Len(Nesting(j)) < Len(Nesting(i))
        /\ \A k \in i..(j - 1) : Len(Nesting(k)) >= Len(Nesting(i))

\* the let, print and halt statements of the source
StatementLines ==
    {k \in 1..Len(src) : Len(src[k]) > 0 /\ src[k][1] \in {"let", "print", "halt"}}

\* the n-th of them in source order
NthStatement(n) ==
    CHOOSE k \in StatementLines :
        Cardinality({j \in StatementLines : j < k}) = n - 1

\* the first n statements of the source in order, each with its place, its
\* text and the blocks and branches around it
StatementsInOrder(n) ==
    [m \in 1..n |-> [index |-> NthStatement(m), line |-> src[NthStatement(m)],
                     path |-> Nesting(NthStatement(m) - 1)]]

\* C17: for a well-nested source, every block being compiled or compiled
\* was collected up to its matching closing line, compile_raw going on at the
\* line right after it, and its else, if one was taken, is the else of this
\* very if; the statements compiled so far are the first let, print and halt
\* statements of the source, each once, in source order, in the branch or
\* body of its innermost enclosing block, and all of them once the source
\* is compiled.
C17_WellNestedBlocks ==
    (WellNested /\ src /= <<>>) =>
        /\ \A o \in closed \cup {open[k] : k \in 1..Len(open)} :
              /\ src[o.line][1] = (IF o.kind = "while" THEN "while" ELSE "if")
              /\ o.resume = Match(o.line) + 1
              /\ o.else_line /= 0 - 1 =>
                    /\ src[o.else_line] = <<"else">>
                    /\ Nesting(o.else_line)[Len(Nesting(o.else_line))]
                         = [line |-> o.line, branch |-> "else"]
        /\ \A o \in closed :
              (o.else_line /= 0 - 1) <=>
                  \E k \in o.line..Match(o.line) :
                      /\ src[k] = <<"else">>
                      /\ Len(Nesting(k)) = Len(Nesting(o.line))
        /\ Len(compiled) <= Cardinality(StatementLines)
        /\ compiled = StatementsInOrder(Len(compiled))
        /\ (status /= "exit" /\ SourceCompiled) =>
              Len(compiled) = Cardinality(StatementLines)

\* a well-nested source with a while in the else branch of an if in a while,
\* and an if with an else in the then branch, was compiled to the end
C17_Witness ==
    /\ WellNested
    /\ status = "returned"
    /\ \E s \in 1..Len(compiled) :
          /\ Len(compiled[s].path) = 3
          /\ compiled[s].path[1].branch = "body"
          /\ compiled[s].path[2].branch = "else"
          /\ compiled[s].path[3].branch = "else"
    /\ \E s \in 1..Len(compiled) :
          /\ Len(compiled[s].path) = 3
          /\ compiled[s].path[2].branch = "then"
          /\ compiled[s].path[3].branch = "body"

\* the expressions of the line are well-formed infix: the right-hand side
\* of a let, on both sides of its first comparison operator if it has one,
\* and the two sides of the comparison of an if or while
WellFormedLine(line) ==
    IF Len(line) = 0 THEN TRUE
    ELSE IF line[1] = "let"
    THEN Len(line) >= 4 /\ WellFormedSides(SubSeq(line, 4, Len(line)))
    ELSE IF line[1] \in {"if", "while"}
    THEN /\ CmpPositions(SubSeq(line, 2, Len(line))) /= {}
         /\ WellFormedSides(SubSeq(line, 2, Len(line)))
    ELSE TRUE

\* what an instruction adds to the depth of the operand stack
StackEffect(ins) ==
    IF ins.op \in {PUSH, LOAD} THEN 1
    ELSE IF ins.op \in {ADD, SUB, MUL, DIV} \cup CmpOpcodes THEN 0 - 1
    ELSE IF ins.op \in {STORE, JZ} \/ ins = PLACEHOLDER_JZ THEN 0 - 1
    ELSE 0

\* the depth after the first n instructions of the list, from depth 0
RECURSIVE DepthAfter(_, _)
DepthAfter(code, n) ==
    IF n = 0 THEN 0 ELSE DepthAfter(code, n - 1) + StackEffect(code[n])

\* C18: for a source whose expressions are all well-formed infix, as long as
\* the compilation has not failed, the simulated depth of the operand stack
\* (Push and Load +1; arithmetic, comparison, Store and JumpIfZero -1) is
\* negative after no instruction of the list, and is 0 after the
\* instructions of each assignment, each print and each if/while condition
\* with its JumpIfZero, that is after every step of the compiler.
C18_OperandStackBalance ==
    ((\A i \in 1..Len(src) : WellFormedLine(src[i])) /\ status /= "exit") =>
        /\ \A n \in 0..Len(bytecode) : DepthAfter(bytecode, n) >= 0
        /\ DepthAfter(bytecode, Len(bytecode)) = 0

\* a program with a parenthesised product, a comparison with an expression
\* on one side and a literal print was returned
C18_Witness ==
    /\ status = "returned"
    /\ \E i \in 1..Len(src) : src[i] = <<"let", "x", "=", "(", "1", "+", "2", ")", "*", "3">>
    /\ \E i \in 1..Len(src) : src[i] = <<"if", "x", ">=", "x", "-", "1">>
    /\ \E i \in 1..Len(src) : src[i] = <<"print", "-1">>
    /\ \A i \in 1..Len(src) : WellFormedLine(src[i])
    /\ \E a \in 1..Len(output) : output[a].op = JZ
    /\ \E a \in 1..Len(output) : output[a].op = MUL

=============================================================================
